---- MODULE Spec2Model ----
(***************************************************************************)
(* GlueSQL storage backed by Discord: DiscordStorage (src/src/storage)     *)
(* over the Discord client wrapper (src/src/lib.rs).  The guild is the     *)
(* remote state: a list of channels, each a list of messages.  Every       *)
(* Store / StoreMut method is one action; a method is computed by an       *)
(* operator of the same name from the guild before the call, its           *)
(* arguments and the number of the remote call that fails (0: none).       *)
(***************************************************************************)
EXTENDS Integers, Sequences, FiniteSets, TLC

VARIABLES channels, nextId, last, storage, writers, schema_posts

vars == <<channels, nextId, last, storage, writers, schema_posts>>

(***************************************************************************)
(* Bounds of the model.                                                    *)
(***************************************************************************)
\* identifiers (channels and messages share the snowflake space) are 1..MaxId
MaxId == 4

\* a text given to the decoder has up to MaxBody tokens between its fences
MaxBody == 3

\* each of two concurrent writers calls insert_schema up to MaxRaceCalls times
MaxRaceCalls == 2

(***************************************************************************)
(* Result and Option values.                                               *)
(***************************************************************************)
Ok(v) == [ok |-> TRUE, val |-> v]

Err(e) == [ok |-> FALSE, err |-> e]

Some(v) == [some |-> TRUE, v |-> v]

None == [some |-> FALSE]

Unit == "()"

(***************************************************************************)
(* Text.  A table name or a key is a sequence of characters.               *)
(***************************************************************************)
LowerChar(c) ==
    CASE c = "F" -> "f"
      [] c = "O" -> "o"
      [] c = "B" -> "b"
      [] OTHER -> c

\* str::to_lowercase
to_lowercase(s) == [i \in DOMAIN s |-> LowerChar(s[i])]

Digits == <<"0", "1", "2", "3", "4", "5", "6", "7", "8", "9">>

DigitValue(c) == (CHOOSE i \in DOMAIN Digits : Digits[i] = c) - 1

IsDigit(c) == \E i \in DOMAIN Digits : Digits[i] = c

RECURSIVE DecimalString(_)
\* u64::to_string
DecimalString(n) ==
    IF n < 10 THEN <<Digits[n + 1]>>
    ELSE Append(DecimalString(n \div 10), Digits[(n % 10) + 1])

RECURSIVE DigitsValue(_)
DigitsValue(s) ==
    IF s = <<>> THEN 0
    ELSE 10 * DigitsValue(SubSeq(s, 1, Len(s) - 1)) + DigitValue(s[Len(s)])

\* str::parse::<u64>: an optional "+", then one or more decimal digits; the
\* keys of the model are far shorter than the 20 digits of u64::MAX
ParseU64(s) ==
    LET body == IF s # <<>> /\ s[1] = "+" THEN Tail(s) ELSE s
    IN  IF body = <<>> THEN Err("cannot parse integer from empty string")
        ELSE IF \E i \in DOMAIN body : ~IsDigit(body[i])
             THEN Err("invalid digit found in string")
        ELSE Ok(DigitsValue(body))

(***************************************************************************)
(* Keys, rows and schemas of gluesql_core.                                 *)
(***************************************************************************)
KeyStr(s) == [kind |-> "Str", s |-> s]

KeyI64(s) == [kind |-> "I64", s |-> s]

Row(values) == [values |-> values]

ColumnDef(name, data_type, options) ==
    [name |-> name, data_type |-> data_type, options |-> options]

\* ColumnOption::Unique { is_primary }
Unique(is_primary) == [option |-> "Unique", is_primary |-> is_primary]

NotNull == [option |-> "NotNull", is_primary |-> FALSE]

Schema(table_name, column_defs) ==
    [table_name |-> table_name, column_defs |-> column_defs]

(***************************************************************************)
(* Message content.  A content is a sequence of tokens: white space, the   *)
(* opening fence, the closing fence, a mention, or one JSON document.      *)
(***************************************************************************)
Ws == [t |-> "ws"]

FenceOpen == [t |-> "fence_open"]

FenceClose == [t |-> "fence_close"]

Mention == [t |-> "@everyone"]

SafeMention == [t |-> "@_everyone"]

\* the text serde_json writes for a value: ty is the Rust type it came from
Json(ty, v) == [t |-> "json", ty |-> ty, v |-> v]

\* serde_json::to_string_pretty
to_string_pretty(ty, v) == <<Json(ty, v)>>

RECURSIVE TrimStart(_)
TrimStart(text) ==
    IF text # <<>> /\ text[1] = Ws THEN TrimStart(Tail(text)) ELSE text

RECURSIVE TrimEnd(_)
TrimEnd(text) ==
    IF text # <<>> /\ text[Len(text)] = Ws
    THEN TrimEnd(SubSeq(text, 1, Len(text) - 1))
    ELSE text

\* str::trim
Trim(text) == TrimEnd(TrimStart(text))

\* str::strip_prefix of the opening fence
strip_prefix(text) ==
    IF text # <<>> /\ text[1] = FenceOpen THEN Some(Tail(text)) ELSE None

\* str::strip_suffix of the closing fence
strip_suffix(text) ==
    IF text # <<>> /\ text[Len(text)] = FenceClose
    THEN Some(SubSeq(text, 1, Len(text) - 1))
    ELSE None

unwrap_or(opt, default) == IF opt.some THEN opt.v ELSE default

\* serde_json::from_str::<T>: one JSON document of type ty between white space
from_str(ty, text) ==
    LET body == Trim(text)
    IN  IF Len(body) = 1 /\ body[1].t = "json" /\ body[1].ty = ty
        THEN Ok(body[1].v)
        ELSE Err("serde_json")

\* to_discord_json leaving the closing fence out
to_discord_json_unclosed(ty, data) ==
    <<Ws, FenceOpen, Ws>> \o to_string_pretty(ty, data) \o <<Ws>>

\* utils::to_discord_json
to_discord_json(ty, data) ==
    <<Ws, FenceOpen, Ws>> \o to_string_pretty(ty, data) \o <<Ws, FenceClose>>

\* utils::from_discord_json and DiscordSchema::from_str (the same body)
from_discord_json(ty, input) ==
    LET text == Trim(input)
        stripped == unwrap_or(strip_suffix(unwrap_or(strip_prefix(text), text)), text)
    IN  from_str(ty, stripped)

\* DiscordSchema::to_codeblock
to_codeblock(schema) ==
    <<Ws, FenceOpen, Ws>> \o to_string_pretty("Schema", schema) \o <<Ws, FenceClose>>

\* DiscordSchema::from_str
DiscordSchema_from_str(input) ==
    LET text == Trim(input)
        stripped == unwrap_or(strip_suffix(unwrap_or(strip_prefix(text), text)), text)
    IN  from_str("Schema", stripped)

\* Message::content_safe: mentions are rewritten, all other text is kept
content_safe(content) ==
    [i \in DOMAIN content |->
        IF content[i] = Mention THEN SafeMention ELSE content[i]]

(***************************************************************************)
(* The guild.  w = [channels, nextId]: the channels in the order the       *)
(* platform lists them, and the next identifier the platform assigns.  A   *)
(* channel is [id, name, msgs] with msgs oldest first; a message is        *)
(* [id, kind, pinned, content].  Each operator below is what the call of   *)
(* that name of the Discord wrapper does to the guild when it succeeds.    *)
(***************************************************************************)
World(chs, next) == [channels |-> chs, nextId |-> next]

Message(id, kind, pinned, content) ==
    [id |-> id, kind |-> kind, pinned |-> pinned, content |-> content]

RECURSIVE Reverse(_)
Reverse(s) == IF s = <<>> THEN <<>> ELSE Append(Reverse(Tail(s)), Head(s))

ChannelIndex(w, channel_id) ==
    CHOOSE i \in DOMAIN w.channels : w.channels[i].id = channel_id

ChannelOf(w, channel_id) == w.channels[ChannelIndex(w, channel_id)]

WithMsgs(w, channel_id, msgs) ==
    World([w.channels EXCEPT ![ChannelIndex(w, channel_id)].msgs = msgs], w.nextId)

\* Discord::get_channels
get_channels(w) == w.channels

\* Discord::get_channel_id: the first channel of that exact name
get_channel_id(w, channel_name) ==
    LET hits == {i \in DOMAIN w.channels : w.channels[i].name = channel_name}
    IN  IF hits = {} THEN None
        ELSE Some(w.channels[CHOOSE i \in hits : \A j \in hits : i <= j].id)

\* Discord::create_channel: the builder's name is stored as given
create_channel(w, name) ==
    World(Append(w.channels, [id |-> w.nextId, name |-> name, msgs |-> <<>>]),
          w.nextId + 1)

\* Discord::delete_channel: the channel goes with all its messages
delete_channel(w, channel_id) ==
    World(SelectSeq(w.channels, LAMBDA c : c.id # channel_id), w.nextId)

\* Discord::get_pins: the pinned messages, most recent first
get_pins(w, channel_id) ==
    Reverse(SelectSeq(ChannelOf(w, channel_id).msgs, LAMBDA m : m.pinned))

\* Discord::send_message: a new Regular message with the next identifier
send_message(w, channel_id, content) ==
    World(WithMsgs(w, channel_id,
                   Append(ChannelOf(w, channel_id).msgs,
                          Message(w.nextId, "Regular", FALSE, content))).channels,
          w.nextId + 1)

\* set_pin leaving a channel that has a pin as it is
set_pin_once(w, channel_id, message_id) ==
    LET msgs == ChannelOf(w, channel_id).msgs
        pinned == [i \in DOMAIN msgs |->
                     IF msgs[i].id = message_id
                     THEN [msgs[i] EXCEPT !.pinned = TRUE] ELSE msgs[i]]
    IN  IF \E i \in DOMAIN msgs : msgs[i].pinned THEN w
        ELSE World(WithMsgs(w, channel_id,
                            Append(pinned, Message(w.nextId, "PinsAdd", FALSE, <<>>))).channels,
                   w.nextId + 1)

\* Discord::set_pin: the target becomes pinned and the platform adds a
\* PinsAdd notice to the channel (the messages recorded at the end of lib.rs)
set_pin(w, channel_id, message_id) ==
    LET msgs == ChannelOf(w, channel_id).msgs
        pinned == [i \in DOMAIN msgs |->
                     IF msgs[i].id = message_id
                     THEN [msgs[i] EXCEPT !.pinned = TRUE] ELSE msgs[i]]
    IN  World(WithMsgs(w, channel_id,
                       Append(pinned, Message(w.nextId, "PinsAdd", FALSE, <<>>))).channels,
              w.nextId + 1)

\* Discord::get_message: the message of that id in that channel, if any
get_message(w, channel_id, message_id) ==
    LET msgs == ChannelOf(w, channel_id).msgs
        hits == {i \in DOMAIN msgs : msgs[i].id = message_id}
    IN  IF hits = {} THEN Err("failed get_message")
        ELSE Ok(msgs[CHOOSE i \in hits : TRUE])

\* the platform edits only an existing message that is not a system notice
CanEdit(w, channel_id, message_id) ==
    LET got == get_message(w, channel_id, message_id)
    IN  got.ok /\ got.val.kind = "Regular"

\* Discord::edit_message: the content is replaced, the identifier is kept
edit_message(w, channel_id, message_id, content) ==
    LET msgs == ChannelOf(w, channel_id).msgs
    IN  WithMsgs(w, channel_id,
                 [i \in DOMAIN msgs |->
                     IF msgs[i].id = message_id
                     THEN [msgs[i] EXCEPT !.content = content] ELSE msgs[i]])

\* Discord::delete_message
delete_message(w, channel_id, message_id) ==
    WithMsgs(w, channel_id,
             SelectSeq(ChannelOf(w, channel_id).msgs, LAMBDA m : m.id # message_id))

\* Discord::latest_message_iter: the messages of the channel, newest first
latest_message_iter(w, channel_id) == Reverse(ChannelOf(w, channel_id).msgs)

(***************************************************************************)
(* What a method returns: the guild after it, the remote calls it issued   *)
(* in order, and its result.  The call number f fails (0: none does).      *)
(***************************************************************************)
Out(w, calls, res) == [w |-> w, calls |-> calls, res |-> res]

Storage(e) == Err(e)

\* the handle: the client and the guild the storage keeps its tables in
DiscordStorage(discord, storage_guild_id) ==
    [discord |-> discord, storage_guild_id |-> storage_guild_id]

\* try_self giving back, with an error, a handle that lost its guild
try_self_loses_guild(res, self) ==
    IF res.ok THEN Ok(<<self, res.val>>)
    ELSE Err(<<DiscordStorage(self.discord, "unknown"), res.err>>)

\* gluesql's TrySelf: a result becomes a MutResult that carries the handle
try_self(res, self) ==
    IF res.ok THEN Ok(<<self, res.val>>) ELSE Err(<<self, res.err>>)

\* the handle a MutResult gives back to the engine
Returned(mut_result) ==
    IF mut_result.ok THEN mut_result.val[1] ELSE mut_result.err[1]

(***************************************************************************)
(* impl Store for DiscordStorage.                                          *)
(***************************************************************************)
\* DiscordStorage::get_schema, after get_pins answered: the first pin decoded
get_schema(w, channel_id) ==
    LET pins == get_pins(w, channel_id)
    IN  IF pins = <<>> THEN Ok(None)
        ELSE LET schema == from_discord_json("Schema", content_safe(pins[1].content))
             IN  IF schema.ok THEN Ok(Some(schema.val)) ELSE Storage(schema.err)

\* Store::fetch_schema
fetch_schema(w, name, f) ==
    LET channel_name == to_lowercase(name)
    IN  IF f = 1 THEN Out(w, <<"get_channels">>, Storage("failed get_channels"))
        ELSE LET hits == {i \in DOMAIN get_channels(w) :
                             get_channels(w)[i].name = channel_name}
             IN  IF hits = {} THEN Out(w, <<"get_channels">>, Ok(None))
                 ELSE IF f = 2
                      THEN Out(w, <<"get_channels", "get_pins">>, Storage("failed get_pins"))
                 ELSE Out(w, <<"get_channels", "get_pins">>,
                          get_schema(w, get_channels(w)[CHOOSE i \in hits :
                                                           \A j \in hits : i <= j].id))

RECURSIVE AllSchemas_skips_undecodable(_, _, _, _, _)
\* AllSchemas passing over a channel whose first pin does not decode
AllSchemas_skips_undecodable(w, todo, schemas, calls, f) ==
    IF todo = <<>> THEN Out(w, calls, Ok(schemas))
    ELSE LET calls1 == Append(calls, "get_pins")
         IN  IF f = Len(calls1) THEN Out(w, calls1, Storage("failed get_pins"))
             ELSE LET schema == get_schema(w, Head(todo).id)
                  IN  AllSchemas_skips_undecodable(w, Tail(todo),
                                      IF schema.ok /\ schema.val.some
                                      THEN Append(schemas, schema.val.v) ELSE schemas,
                                      calls1, f)

RECURSIVE AllSchemas(_, _, _, _, _)
\* the loop of fetch_all_schemas over the channels still to visit
AllSchemas(w, todo, schemas, calls, f) ==
    IF todo = <<>> THEN Out(w, calls, Ok(schemas))
    ELSE LET calls1 == Append(calls, "get_pins")
         IN  IF f = Len(calls1) THEN Out(w, calls1, Storage("failed get_pins"))
             ELSE LET schema == get_schema(w, Head(todo).id)
                  IN  IF ~schema.ok THEN Out(w, calls1, schema)
                      ELSE AllSchemas(w, Tail(todo),
                                      IF schema.val.some
                                      THEN Append(schemas, schema.val.v) ELSE schemas,
                                      calls1, f)

\* Store::fetch_all_schemas
fetch_all_schemas(w, f) ==
    IF f = 1 THEN Out(w, <<"get_channels">>, Storage("failed get_channels"))
    ELSE AllSchemas(w, get_channels(w), <<>>, <<"get_channels">>, f)

\* the key of a row as a message id (fetch_data, update_or_insert_row, delete_row)
KeyToMessageId(key) ==
    IF key.kind # "Str" THEN Err("invalid key")
    ELSE LET id == ParseU64(key.s)
         IN  IF id.ok THEN id ELSE Err("invalid key")

\* fetch_data once the channel is known: get_message(..).ok(), then decode
FetchMessage(w, channel_id, message_id, calls, f) ==
    LET calls1 == Append(calls, "get_message")
        message == IF f = Len(calls1) THEN Err("failed get_message")
                   ELSE get_message(w, channel_id, message_id)
    IN  IF ~message.ok THEN Out(w, calls1, Ok(None))
        ELSE LET row == from_discord_json("Row", content_safe(message.val.content))
             IN  IF row.ok THEN Out(w, calls1, Ok(Some(row.val)))
                 ELSE Out(w, calls1, Storage(row.err))

\* Store::fetch_data
fetch_data(w, name, key, f) ==
    LET channel_name == to_lowercase(name)
        message_id == KeyToMessageId(key)
    IN  IF ~message_id.ok THEN Out(w, <<>>, Storage(message_id.err))
        ELSE IF f = 1 THEN Out(w, <<"get_channel_id">>, Storage("failed get_channels"))
        ELSE LET channel_id == get_channel_id(w, channel_name)
             IN  IF ~channel_id.some
                 THEN Out(w, <<"get_channel_id">>, Storage("fetch_data) not found channel"))
                 ELSE FetchMessage(w, channel_id.v, message_id.val, <<"get_channel_id">>, f)

\* IsRowMessage with the pinned test forgotten
IsRowMessage_kind_only(message) == message.kind = "Regular"

\* the match of scan_data's closure: which messages are rows
IsRowMessage(message) == message.kind = "Regular" /\ ~message.pinned

\* ScanEntry giving the message id as Key::I64 instead of Key::Str
ScanEntry_numeric_key(message) ==
    IF ~IsRowMessage(message) THEN Ok(None)
    ELSE LET row == from_discord_json("Row", content_safe(message.content))
         IN  IF row.ok
             THEN Ok(Some(<<KeyI64(DecimalString(message.id)), row.val>>))
             ELSE Storage(row.err)

\* the closure scan_data maps over the stream
ScanEntry(message) ==
    IF ~IsRowMessage(message) THEN Ok(None)
    ELSE LET row == from_discord_json("Row", content_safe(message.content))
         IN  IF row.ok
             THEN Ok(Some(<<KeyStr(DecimalString(message.id)), row.val>>))
             ELSE Storage(row.err)

RECURSIVE FilterMapTranspose_drops_errors(_)
\* FilterMapTranspose dropping the messages that failed to decode
FilterMapTranspose_drops_errors(items) ==
    IF items = <<>> THEN <<>>
    ELSE LET rest == FilterMapTranspose_drops_errors(Tail(items))
             item == Head(items)
         IN  IF item.ok /\ item.val.some THEN <<Ok(item.val.v)>> \o rest ELSE rest

RECURSIVE FilterMapTranspose(_)
\* filter_map(|row| row.transpose()): Ok(None) is dropped, Ok(Some(x)) and Err stay
FilterMapTranspose(items) ==
    IF items = <<>> THEN <<>>
    ELSE LET rest == FilterMapTranspose(Tail(items))
             item == Head(items)
         IN  IF ~item.ok THEN <<item>> \o rest
             ELSE IF item.val.some THEN <<Ok(item.val.v)>> \o rest
             ELSE rest

\* RowIterOf without the final rev()
RowIterOf_unreversed(messages) == FilterMapTranspose(messages)

\* the RowIter scan_data builds from the collected stream
RowIterOf(messages) == Reverse(FilterMapTranspose(messages))

\* scan_data answering a missing channel with an empty RowIter
scan_data_empty_if_missing(w, name, f) ==
    LET channel_name == to_lowercase(name)
    IN  IF f = 1 THEN Out(w, <<"get_channel_id">>, Storage("failed get_channels"))
        ELSE LET channel_id == get_channel_id(w, channel_name)
                 calls == <<"get_channel_id", "latest_message_iter">>
             IN  IF ~channel_id.some
                 THEN Out(w, <<"get_channel_id">>, Ok(<<>>))
                 ELSE IF f = 2 THEN Out(w, calls, Storage("failed messages_iter"))
                 ELSE LET stream == latest_message_iter(w, channel_id.v)
                      IN  Out(w, calls,
                              Ok(RowIterOf([i \in DOMAIN stream |-> ScanEntry(stream[i])])))

\* Store::scan_data
scan_data(w, name, f) ==
    LET channel_name == to_lowercase(name)
    IN  IF f = 1 THEN Out(w, <<"get_channel_id">>, Storage("failed get_channels"))
        ELSE LET channel_id == get_channel_id(w, channel_name)
                 calls == <<"get_channel_id", "latest_message_iter">>
             IN  IF ~channel_id.some
                 THEN Out(w, <<"get_channel_id">>, Storage("scan_data) not found channel"))
                 ELSE IF f = 2 THEN Out(w, calls, Storage("failed messages_iter"))
                 ELSE LET stream == latest_message_iter(w, channel_id.v)
                      IN  Out(w, calls,
                              Ok(RowIterOf([i \in DOMAIN stream |-> ScanEntry(stream[i])])))

(***************************************************************************)
(* impl StoreMut for DiscordStorage.                                       *)
(***************************************************************************)
\* HasPrimaryKey looking at the first column only
HasPrimaryKey_first_column(schema) ==
    /\ schema.column_defs # <<>>
    /\ \E j \in DOMAIN schema.column_defs[1].options :
            /\ schema.column_defs[1].options[j].option = "Unique"
            /\ schema.column_defs[1].options[j].is_primary

\* the check insert_schema starts with: some column is Unique { is_primary: true }
HasPrimaryKey(schema) ==
    \E i \in DOMAIN schema.column_defs :
        \E j \in DOMAIN schema.column_defs[i].options :
            /\ schema.column_defs[i].options[j].option = "Unique"
            /\ schema.column_defs[i].options[j].is_primary

\* PinSchema pinning, with the message it posted, every Regular message of the channel
PinSchema_repins_orphans(w, channel_id, schema, calls, f) ==
    LET calls1 == Append(calls, "get_pins")
        calls2 == Append(calls1, "send_message")
        calls3 == Append(calls2, "set_pin")
        content == to_discord_json("Schema", schema)
        posted == send_message(w, channel_id, content)
        pinned == set_pin(posted, channel_id, w.nextId)
        msgs == ChannelOf(pinned, channel_id).msgs
    IN  IF f = Len(calls1) THEN Out(w, calls1, Storage("failed get_pins"))
        ELSE IF get_pins(w, channel_id) # <<>>
             THEN Out(w, calls1, Storage("channel is already pinned"))
        ELSE IF f = Len(calls2) THEN Out(w, calls2, Storage("failed send_message"))
        ELSE IF f = Len(calls3) THEN Out(posted, calls3, Storage("failed set_pin"))
        ELSE Out(WithMsgs(pinned, channel_id,
                          [i \in DOMAIN msgs |->
                              IF msgs[i].kind = "Regular"
                              THEN [msgs[i] EXCEPT !.pinned = TRUE] ELSE msgs[i]]),
                 calls3, Ok(Unit))

\* insert_schema from get_pins on, in the channel it resolved or created
PinSchema(w, channel_id, schema, calls, f) ==
    LET calls1 == Append(calls, "get_pins")
        calls2 == Append(calls1, "send_message")
        calls3 == Append(calls2, "set_pin")
        content == to_discord_json("Schema", schema)
        posted == send_message(w, channel_id, content)
    IN  IF f = Len(calls1) THEN Out(w, calls1, Storage("failed get_pins"))
        ELSE IF get_pins(w, channel_id) # <<>>
             THEN Out(w, calls1, Storage("channel is already pinned"))
        ELSE IF f = Len(calls2) THEN Out(w, calls2, Storage("failed send_message"))
        ELSE IF f = Len(calls3) THEN Out(posted, calls3, Storage("failed set_pin"))
        ELSE Out(set_pin(posted, channel_id, w.nextId), calls3, Ok(Unit))

\* StoreMut::insert_schema
insert_schema(w, schema, f) ==
    IF HasPrimaryKey(schema)
    THEN Out(w, <<>>, Storage("primary key is not supported"))
    ELSE LET channel_name == to_lowercase(schema.table_name)
             channel_id == get_channel_id(w, channel_name)
             calls == <<"get_channel_id", "create_channel">>
         IN  IF f = 1 THEN Out(w, <<"get_channel_id">>, Storage("failed get_channels"))
             ELSE IF channel_id.some
                  THEN PinSchema(w, channel_id.v, schema, <<"get_channel_id">>, f)
             ELSE IF f = 2 THEN Out(w, calls, Storage("failed create_channel"))
             ELSE PinSchema(create_channel(w, schema.table_name), w.nextId,
                            schema, calls, f)

\* delete_schema removing the pinned schema alone and keeping the channel
delete_schema_schema_only(w, name, f) ==
    LET channel_name == to_lowercase(name)
        channel_id == get_channel_id(w, channel_name)
        calls == <<"get_channel_id", "delete_channel">>
    IN  IF f = 1 THEN Out(w, <<"get_channel_id">>, Storage("failed get_channels"))
        ELSE IF ~channel_id.some
             THEN Out(w, <<"get_channel_id">>, Storage("delete_schema) not found channel"))
        ELSE IF f = 2 THEN Out(w, calls, Storage("failed delete_channel"))
        ELSE Out(WithMsgs(w, channel_id.v,
                          SelectSeq(ChannelOf(w, channel_id.v).msgs, LAMBDA m : ~m.pinned)),
                 calls, Ok(Unit))

\* StoreMut::delete_schema
delete_schema(w, name, f) ==
    LET channel_name == to_lowercase(name)
        channel_id == get_channel_id(w, channel_name)
        calls == <<"get_channel_id", "delete_channel">>
    IN  IF f = 1 THEN Out(w, <<"get_channel_id">>, Storage("failed get_channels"))
        ELSE IF ~channel_id.some
             THEN Out(w, <<"get_channel_id">>, Storage("delete_schema) not found channel"))
        ELSE IF f = 2 THEN Out(w, calls, Storage("failed delete_channel"))
        ELSE Out(delete_channel(w, channel_id.v), calls, Ok(Unit))

\* append_data::append_row
append_row(w, channel_id, row, calls, f) ==
    LET calls1 == Append(calls, "send_message")
    IN  IF f = Len(calls1) THEN Out(w, calls1, Storage("failed send_message"))
        ELSE Out(send_message(w, channel_id, to_discord_json("Row", row)), calls1, Ok(Unit))

RECURSIVE AppendRows_last_first(_, _, _, _, _)
\* AppendRows walking the rows from the last to the first
AppendRows_last_first(w, channel_id, rows, calls, f) ==
    IF rows = <<>> THEN Out(w, calls, Ok(Unit))
    ELSE LET one == append_row(w, channel_id, rows[Len(rows)], calls, f)
         IN  IF ~one.res.ok THEN one
             ELSE AppendRows_last_first(one.w, channel_id, SubSeq(rows, 1, Len(rows) - 1),
                                        one.calls, f)

RECURSIVE AppendRows(_, _, _, _, _)
\* the loop of append_data: stop at the first row that fails
AppendRows(w, channel_id, rows, calls, f) ==
    IF rows = <<>> THEN Out(w, calls, Ok(Unit))
    ELSE LET one == append_row(w, channel_id, Head(rows), calls, f)
         IN  IF ~one.res.ok THEN one
             ELSE AppendRows(one.w, channel_id, Tail(rows), one.calls, f)

\* append_data creating the channel it does not find, as insert_schema does
append_data_creates_channel(w, name, rows, f) ==
    LET channel_name == to_lowercase(name)
        channel_id == get_channel_id(w, channel_name)
    IN  IF f = 1 THEN Out(w, <<"get_channel_id">>, Storage("failed get_channels"))
        ELSE IF ~channel_id.some
             THEN AppendRows(create_channel(w, channel_name), w.nextId, rows,
                             <<"get_channel_id", "create_channel">>, f)
        ELSE AppendRows(w, channel_id.v, rows, <<"get_channel_id">>, f)

\* StoreMut::append_data
append_data(w, name, rows, f) ==
    LET channel_name == to_lowercase(name)
        channel_id == get_channel_id(w, channel_name)
    IN  IF f = 1 THEN Out(w, <<"get_channel_id">>, Storage("failed get_channels"))
        ELSE IF ~channel_id.some
             THEN Out(w, <<"get_channel_id">>, Storage("append_data) not found channel"))
        ELSE AppendRows(w, channel_id.v, rows, <<"get_channel_id">>, f)

\* update_or_insert_row replacing a message it finds by a new one
update_or_insert_row_repost(w, channel_id, pair, calls, f) ==
    LET message_id == KeyToMessageId(pair[1])
        content == to_discord_json("Row", pair[2])
        calls1 == Append(calls, "get_message")
        message == IF f = Len(calls1) THEN Err("failed get_message")
                   ELSE get_message(w, channel_id, message_id.val)
        calls2 == Append(calls1, "send_message")
        kept == IF message.ok THEN delete_message(w, channel_id, message_id.val) ELSE w
    IN  IF ~message_id.ok THEN Out(w, calls, Storage(message_id.err))
        ELSE IF f = Len(calls2) THEN Out(w, calls2, Storage("failed send_message"))
        ELSE Out(send_message(kept, channel_id, content), calls2, Ok(Unit))

\* insert_data::update_or_insert_row
update_or_insert_row(w, channel_id, pair, calls, f) ==
    LET message_id == KeyToMessageId(pair[1])
        content == to_discord_json("Row", pair[2])
        calls1 == Append(calls, "get_message")
        message == IF f = Len(calls1) THEN Err("failed get_message")
                   ELSE get_message(w, channel_id, message_id.val)
        calls2 == Append(calls1, IF message.ok THEN "edit_message" ELSE "send_message")
    IN  IF ~message_id.ok THEN Out(w, calls, Storage(message_id.err))
        ELSE IF message.ok
             THEN IF f = Len(calls2) \/ ~CanEdit(w, channel_id, message_id.val)
                  THEN Out(w, calls2, Storage("failed edit_message"))
                  ELSE Out(edit_message(w, channel_id, message_id.val, content),
                           calls2, Ok(Unit))
        ELSE IF f = Len(calls2) THEN Out(w, calls2, Storage("failed send_message"))
        ELSE Out(send_message(w, channel_id, content), calls2, Ok(Unit))

RECURSIVE InsertRows(_, _, _, _, _)
\* the loop of insert_data: stop at the first pair that fails
InsertRows(w, channel_id, rows, calls, f) ==
    IF rows = <<>> THEN Out(w, calls, Ok(Unit))
    ELSE LET one == update_or_insert_row(w, channel_id, Head(rows), calls, f)
         IN  IF ~one.res.ok THEN one
             ELSE InsertRows(one.w, channel_id, Tail(rows), one.calls, f)

\* StoreMut::insert_data
insert_data(w, name, rows, f) ==
    LET channel_name == to_lowercase(name)
        channel_id == get_channel_id(w, channel_name)
    IN  IF f = 1 THEN Out(w, <<"get_channel_id">>, Storage("failed get_channels"))
        ELSE IF ~channel_id.some
             THEN Out(w, <<"get_channel_id">>, Storage("insert_data) not found channel"))
        ELSE InsertRows(w, channel_id.v, rows, <<"get_channel_id">>, f)

\* delete_row passing over a key that is no message id
delete_row_skips_invalid_key(w, channel_id, key, calls, f) ==
    LET message_id == KeyToMessageId(key)
        calls1 == Append(calls, "delete_message")
    IN  IF ~message_id.ok THEN Out(w, calls, Ok(Unit))
        ELSE IF f = Len(calls1) \/ ~get_message(w, channel_id, message_id.val).ok
             THEN Out(w, calls1, Storage("failed delete_message"))
        ELSE Out(delete_message(w, channel_id, message_id.val), calls1, Ok(Unit))

\* delete_row answering Ok when the message is not there
delete_row_ignores_missing(w, channel_id, key, calls, f) ==
    LET message_id == KeyToMessageId(key)
        calls1 == Append(calls, "delete_message")
    IN  IF ~message_id.ok THEN Out(w, calls, Storage(message_id.err))
        ELSE IF f = Len(calls1) THEN Out(w, calls1, Storage("failed delete_message"))
        ELSE Out(delete_message(w, channel_id, message_id.val), calls1, Ok(Unit))

\* delete_row answering Ok without a delete on the platform
delete_row_keeps_message(w, channel_id, key, calls, f) ==
    LET message_id == KeyToMessageId(key)
        calls1 == Append(calls, "delete_message")
    IN  IF ~message_id.ok THEN Out(w, calls, Storage(message_id.err))
        ELSE IF f = Len(calls1) \/ ~get_message(w, channel_id, message_id.val).ok
             THEN Out(w, calls1, Storage("failed delete_message"))
        ELSE Out(w, calls1, Ok(Unit))

\* delete_data::delete_row
delete_row(w, channel_id, key, calls, f) ==
    LET message_id == KeyToMessageId(key)
        calls1 == Append(calls, "delete_message")
    IN  IF ~message_id.ok THEN Out(w, calls, Storage(message_id.err))
        ELSE IF f = Len(calls1) \/ ~get_message(w, channel_id, message_id.val).ok
             THEN Out(w, calls1, Storage("failed delete_message"))
        ELSE Out(delete_message(w, channel_id, message_id.val), calls1, Ok(Unit))

RECURSIVE DeleteRows_keep_going(_, _, _, _, _)
\* DeleteRows going on to the keys after one that failed, reporting at the end
DeleteRows_keep_going(w, channel_id, keys, calls, f) ==
    IF keys = <<>> THEN Out(w, calls, Ok(Unit))
    ELSE LET one == delete_row(w, channel_id, Head(keys), calls, f)
             rest == DeleteRows_keep_going(one.w, channel_id, Tail(keys), one.calls, f)
         IN  IF ~one.res.ok THEN Out(rest.w, rest.calls, one.res) ELSE rest

RECURSIVE DeleteRows(_, _, _, _, _)
\* the loop of delete_data: stop at the first key that fails
DeleteRows(w, channel_id, keys, calls, f) ==
    IF keys = <<>> THEN Out(w, calls, Ok(Unit))
    ELSE LET one == delete_row(w, channel_id, Head(keys), calls, f)
         IN  IF ~one.res.ok THEN one
             ELSE DeleteRows(one.w, channel_id, Tail(keys), one.calls, f)

\* StoreMut::delete_data
delete_data(w, name, keys, f) ==
    LET channel_name == to_lowercase(name)
        channel_id == get_channel_id(w, channel_name)
    IN  IF f = 1 THEN Out(w, <<"get_channel_id">>, Storage("failed get_channels"))
        ELSE IF ~channel_id.some
             THEN Out(w, <<"get_channel_id">>, Storage("delete_data) not found channel"))
        ELSE DeleteRows(w, channel_id.v, keys, <<"get_channel_id">>, f)

(***************************************************************************)
(* The arguments the engine passes.                                        *)
(***************************************************************************)
\* schema.table_name of insert_schema
TableNames == {<<"F", "o">>, <<"f", "o">>}

\* the names looked up by fetch_schema and delete_schema
LookupNames == TableNames \cup {<<"F", "O">>}

\* the table of the row methods
RowTables == {<<"F", "o">>}

ColumnSets ==
    { <<ColumnDef("id", "Int", <<>>)>>,
      <<ColumnDef("id", "Int", <<>>), ColumnDef("name", "Text", <<NotNull, Unique(FALSE)>>)>>,
      <<ColumnDef("id", "Int", <<>>), ColumnDef("name", "Text", <<NotNull, Unique(TRUE)>>)>> }

Schemas == {Schema(n, c) : n \in TableNames, c \in ColumnSets}

Rows == {Row(<<1>>), Row(<<2>>)}

\* the identifiers the platform has issued so far, of messages that exist or
\* were deleted and of channels, and 0, which it never issues
KnownIds == 0..(nextId - 1)

\* the keys a caller passes: an identifier it can have seen, a string that is
\* no number, and a key that is no string
Keys == {KeyStr(DecimalString(i)) : i \in KnownIds}
            \cup {KeyStr(<<"x">>), KeyI64(<<"1">>)}

\* the Vec arguments: no element, one element or two
Batches(S) == {<<>>} \cup {<<a>> : a \in S} \cup {<<a, b>> : a \in S, b \in S}

\* the Vec<(Key, Row)> arguments: two pairs of one call carry the same row
PairBatches ==
    {<<>>} \cup {<<<<k, r>>>> : k \in Keys, r \in Rows}
           \cup {<<<<j, r>>, <<k, r>>>> : j \in Keys, k \in Keys, r \in Rows}

\* the number of the remote call that fails: none, or one of those the call issues
FailPoints(out) == 0..Len(out.calls)

(***************************************************************************)
(* The state machine.  The engine makes one call at a time: a call runs    *)
(* to its end in one step and leaves its record in last; the engine then   *)
(* takes the result (and, from a StoreMut method, the storage it gave up)  *)
(* before it calls again.                                                  *)
(***************************************************************************)
W == World(channels, nextId)

Idle == [op |-> "idle", table |-> <<>>, arg |-> <<>>, fail |-> 0,
         calls |-> <<>>, res |-> Ok(Unit)]

\* the methods of StoreMut: they take the handle and give it back
StoreMutMethods ==
    {"insert_schema", "delete_schema", "append_data", "insert_data", "delete_data"}

Init ==
    /\ channels = <<>>
    /\ nextId = 1
    /\ last = Idle
    /\ storage = DiscordStorage("discord", "GlueSQL Storage Test")
    /\ writers = <<>>
    /\ schema_posts = [on |-> FALSE, ids |-> {}]

\* the identifiers of the Regular messages of the guild
RegularIds(w) ==
    UNION {{w.channels[i].msgs[j].id :
                j \in {k \in DOMAIN w.channels[i].msgs :
                           w.channels[i].msgs[k].kind = "Regular"}} :
              i \in DOMAIN w.channels}

\* the call ran with these arguments and left the guild and this result;
\* where the history is kept (HistorySpec), schema_posts.ids holds, of the
\* messages still there, those that the send_message of insert_schema posted
Step(op, table, arg, f, out) ==
    /\ f <= Len(out.calls)
    /\ out.w.nextId <= MaxId + 1
    /\ channels' = out.w.channels
    /\ nextId' = out.w.nextId
    /\ last' = [op |-> op, table |-> table, arg |-> arg, fail |-> f,
                calls |-> out.calls, res |-> out.res]
    /\ storage' = IF op \in StoreMutMethods
                  THEN Returned(try_self(out.res, storage))
                  ELSE storage
    /\ writers' = writers
    /\ schema_posts' =
           IF schema_posts.on
           THEN [schema_posts EXCEPT !.ids =
                    {id \in RegularIds(out.w) :
                        \/ id \in schema_posts.ids
                        \/ op = "insert_schema" /\ id >= nextId}]
           ELSE schema_posts

FetchSchema ==
    /\ last = Idle
    /\ \E name \in LookupNames :
             \E f \in FailPoints(fetch_schema(W, name, 0)) :
               Step("fetch_schema", name, <<>>, f, fetch_schema(W, name, f))

FetchAllSchemas ==
    /\ last = Idle
    /\ \E f \in FailPoints(fetch_all_schemas(W, 0)) :
               Step("fetch_all_schemas", <<>>, <<>>, f, fetch_all_schemas(W, f))

FetchData ==
    /\ last = Idle
    /\ \E name \in RowTables, key \in Keys :
             \E f \in FailPoints(fetch_data(W, name, key, 0)) :
               Step("fetch_data", name, key, f, fetch_data(W, name, key, f))

ScanData ==
    /\ last = Idle
    /\ \E name \in RowTables :
             \E f \in FailPoints(scan_data(W, name, 0)) :
               Step("scan_data", name, <<>>, f, scan_data(W, name, f))

InsertSchema ==
    /\ last = Idle
    /\ \E schema \in Schemas :
             \E f \in FailPoints(insert_schema(W, schema, 0)) :
               Step("insert_schema", schema.table_name, schema, f, insert_schema(W, schema, f))

DeleteSchema ==
    /\ last = Idle
    /\ \E name \in LookupNames :
             \E f \in FailPoints(delete_schema(W, name, 0)) :
               Step("delete_schema", name, <<>>, f, delete_schema(W, name, f))

AppendData ==
    /\ last = Idle
    /\ \E name \in RowTables, rows \in Batches(Rows) :
             \E f \in FailPoints(append_data(W, name, rows, 0)) :
               Step("append_data", name, rows, f, append_data(W, name, rows, f))

InsertData ==
    /\ last = Idle
    /\ \E name \in RowTables, rows \in PairBatches :
             \E f \in FailPoints(insert_data(W, name, rows, 0)) :
               Step("insert_data", name, rows, f, insert_data(W, name, rows, f))

DeleteData ==
    /\ last = Idle
    /\ \E name \in RowTables, keys \in Batches(Keys) :
             \E f \in FailPoints(delete_data(W, name, keys, 0)) :
               Step("delete_data", name, keys, f, delete_data(W, name, keys, f))

\* the engine takes the result of the call
Return ==
    /\ last # Idle
    /\ last' = Idle
    /\ UNCHANGED <<channels, nextId, storage, writers, schema_posts>>

Next ==
    \/ FetchSchema
    \/ FetchAllSchemas
    \/ FetchData
    \/ ScanData
    \/ InsertSchema
    \/ DeleteSchema
    \/ AppendData
    \/ InsertData
    \/ DeleteData
    \/ Return

Spec == Init /\ [][Next]_vars

\* the same methods, with the history of the schema posts kept
HistoryInit ==
    /\ channels = <<>>
    /\ nextId = 1
    /\ last = Idle
    /\ storage = DiscordStorage("discord", "GlueSQL Storage Test")
    /\ writers = <<>>
    /\ schema_posts = [on |-> TRUE, ids |-> {}]

HistorySpec == HistoryInit /\ [][Next]_vars

(***************************************************************************)
(* The codec alone.  A run starts from a value to encode or from a text to *)
(* decode; the text is a body, with or without the fences around it.       *)
(***************************************************************************)
CodecTypes == {"Schema", "Row"}

ValuesOf(ty) == IF ty = "Schema" THEN Schemas ELSE Rows

\* what a body is made of: white space and JSON documents
BodyTokens ==
    {Ws} \cup {Json("Row", r) : r \in Rows}
         \cup {Json("Schema", Schema(<<"f", "o">>, <<ColumnDef("id", "Int", <<>>)>>))}

Bodies == UNION {[1..n -> BodyTokens] : n \in 0..MaxBody}

Fencings == {"bare", "opened", "closed", "fenced"}

\* the body with the opening fence, the closing fence, both or none
Fenced(fencing, body) ==
    (IF fencing \in {"opened", "fenced"} THEN <<FenceOpen>> ELSE <<>>)
        \o body
        \o (IF fencing \in {"closed", "fenced"} THEN <<FenceClose>> ELSE <<>>)

CodecRun(op, ty, arg, fencing, res) ==
    [op |-> op, ty |-> ty, arg |-> arg, fencing |-> fencing, res |-> res]

CodecInit ==
    /\ channels = <<>>
    /\ nextId = 1
    /\ storage = DiscordStorage("discord", "GlueSQL Storage Test")
    /\ writers = <<>>
    /\ schema_posts = [on |-> FALSE, ids |-> {}]
    /\ last \in UNION {{CodecRun("value", ty, v, "fenced", Ok(Unit)) : v \in ValuesOf(ty)} :
                           ty \in CodecTypes}
                \cup {CodecRun("text", ty, body, "bare", Ok(Unit)) :
                         ty \in CodecTypes, body \in Bodies}

\* utils::to_discord_json of the value
Encode ==
    /\ last.op = "value"
    /\ last' = [last EXCEPT !.op = "to_discord_json",
                            !.res = Ok(to_discord_json(last.ty, last.arg))]
    /\ UNCHANGED <<channels, nextId, storage, writers, schema_posts>>

\* utils::from_discord_json of what to_discord_json gave
DecodeEncoded ==
    /\ last.op = "to_discord_json"
    /\ last' = [last EXCEPT !.op = "from_discord_json(to_discord_json)",
                            !.res = from_discord_json(last.ty, last.res.val)]
    /\ UNCHANGED <<channels, nextId, storage, writers, schema_posts>>

\* DiscordSchema::to_codeblock of the schema
ToCodeblock ==
    /\ last.op = "value"
    /\ last.ty = "Schema"
    /\ last' = [last EXCEPT !.op = "to_codeblock", !.res = Ok(to_codeblock(last.arg))]
    /\ UNCHANGED <<channels, nextId, storage, writers, schema_posts>>

\* DiscordSchema::from_str of what to_codeblock gave
FromStrCodeblock ==
    /\ last.op = "to_codeblock"
    /\ last' = [last EXCEPT !.op = "from_str(to_codeblock)",
                            !.res = DiscordSchema_from_str(last.res.val)]
    /\ UNCHANGED <<channels, nextId, storage, writers, schema_posts>>

\* utils::from_discord_json of the body under one of the fencings
Decode ==
    /\ last.op = "text"
    /\ \E fencing \in Fencings :
           last' = [last EXCEPT !.op = "from_discord_json",
                                !.fencing = fencing,
                                !.res = from_discord_json(last.ty, Fenced(fencing, last.arg))]
    /\ UNCHANGED <<channels, nextId, storage, writers, schema_posts>>

\* DiscordSchema::from_str of the body under one of the fencings
FromStr ==
    /\ last.op = "text"
    /\ last.ty = "Schema"
    /\ \E fencing \in Fencings :
           last' = [last EXCEPT !.op = "from_str",
                                !.fencing = fencing,
                                !.res = DiscordSchema_from_str(Fenced(fencing, last.arg))]
    /\ UNCHANGED <<channels, nextId, storage, writers, schema_posts>>

CodecNext ==
    \/ Encode
    \/ DecodeEncoded
    \/ ToCodeblock
    \/ FromStrCodeblock
    \/ Decode
    \/ FromStr

CodecSpec == CodecInit /\ [][CodecNext]_vars

(***************************************************************************)
(* Two writers calling insert_schema at the same time.  Each writer runs   *)
(* the body of insert_schema one remote call at a time; the calls of the   *)
(* two interleave in any order, and any of them may fail.                  *)
(***************************************************************************)
Writers == {1, 2}

RaceTables == {<<"f", "o">>, <<"b", "a">>}

RaceSchemas == {Schema(n, <<ColumnDef("id", "Int", <<>>)>>) : n \in RaceTables}

\* a writer between two calls, n calls made
WriterIdle(n) ==
    [pc |-> "idle", schema |-> <<>>, channel_id |-> 0, message_id |-> 0,
     calls |-> <<>>, res |-> Ok(Unit), made |-> n]

RaceInit ==
    /\ channels = <<>>
    /\ nextId = 1
    /\ last = Idle
    /\ storage = DiscordStorage("discord", "GlueSQL Storage Test")
    /\ writers = [i \in Writers |-> WriterIdle(0)]
    /\ schema_posts = [on |-> FALSE, ids |-> {}]

\* writer i moves on: its next call is named call, or it is done with res
Goes(i, call, fields) ==
    writers' = [writers EXCEPT ![i] =
                   [fields EXCEPT !.pc = call,
                                  !.calls = IF call = "done" THEN fields.calls
                                            ELSE Append(fields.calls, call)]]

Fails(i, e) == Goes(i, "done", [writers[i] EXCEPT !.res = Storage(e)])

\* insert_schema is called: the primary-key check, then the channel lookup
RaceCall ==
    \E i \in Writers, schema \in RaceSchemas :
        /\ writers[i].pc = "idle"
        /\ writers[i].made < MaxRaceCalls
        /\ IF HasPrimaryKey(schema)
           THEN Goes(i, "done", [writers[i] EXCEPT !.schema = schema,
                                    !.res = Storage("primary key is not supported")])
           ELSE Goes(i, "get_channel_id", [writers[i] EXCEPT !.schema = schema])
        /\ UNCHANGED <<channels, nextId, last, storage, schema_posts>>

\* get_channel_id answers: the channel is there, or it is to be created
RaceGetChannelId ==
    \E i \in Writers, ok \in BOOLEAN :
        /\ writers[i].pc = "get_channel_id"
        /\ LET channel_id == get_channel_id(W, to_lowercase(writers[i].schema.table_name))
           IN  IF ~ok THEN Fails(i, "failed get_channels")
               ELSE IF channel_id.some
                    THEN Goes(i, "get_pins", [writers[i] EXCEPT !.channel_id = channel_id.v])
               ELSE Goes(i, "create_channel", writers[i])
        /\ UNCHANGED <<channels, nextId, last, storage, schema_posts>>

\* create_channel answers
RaceCreateChannel ==
    \E i \in Writers, ok \in BOOLEAN :
        /\ writers[i].pc = "create_channel"
        /\ IF ~ok
           THEN /\ Fails(i, "failed create_channel")
                /\ UNCHANGED <<channels, nextId>>
           ELSE /\ channels' = create_channel(W, writers[i].schema.table_name).channels
                /\ nextId' = create_channel(W, writers[i].schema.table_name).nextId
                /\ Goes(i, "get_pins", [writers[i] EXCEPT !.channel_id = nextId])
        /\ UNCHANGED <<last, storage, schema_posts>>

\* get_pins answers: a pin is a refusal, no pin lets the writer post
RaceGetPins ==
    \E i \in Writers, ok \in BOOLEAN :
        /\ writers[i].pc = "get_pins"
        /\ IF ~ok THEN Fails(i, "failed get_pins")
           ELSE IF get_pins(W, writers[i].channel_id) # <<>>
                THEN Fails(i, "channel is already pinned")
           ELSE Goes(i, "send_message", writers[i])
        /\ UNCHANGED <<channels, nextId, last, storage, schema_posts>>

\* send_message answers
RaceSendMessage ==
    \E i \in Writers, ok \in BOOLEAN :
        /\ writers[i].pc = "send_message"
        /\ LET posted == send_message(W, writers[i].channel_id,
                                      to_discord_json("Schema", writers[i].schema))
           IN  IF ~ok
               THEN /\ Fails(i, "failed send_message")
                    /\ UNCHANGED <<channels, nextId>>
               ELSE /\ channels' = posted.channels
                    /\ nextId' = posted.nextId
                    /\ Goes(i, "set_pin", [writers[i] EXCEPT !.message_id = nextId])
        /\ UNCHANGED <<last, storage, schema_posts>>

\* set_pin answers
RaceSetPin ==
    \E i \in Writers, ok \in BOOLEAN :
        /\ writers[i].pc = "set_pin"
        /\ LET pinned == set_pin(W, writers[i].channel_id, writers[i].message_id)
           IN  IF ~ok
               THEN /\ Fails(i, "failed set_pin")
                    /\ UNCHANGED <<channels, nextId>>
               ELSE /\ channels' = pinned.channels
                    /\ nextId' = pinned.nextId
                    /\ Goes(i, "done", [writers[i] EXCEPT !.res = Ok(Unit)])
        /\ UNCHANGED <<last, storage, schema_posts>>

\* the caller of writer i takes the result
RaceReturn ==
    \E i \in Writers :
        /\ writers[i].pc = "done"
        /\ writers' = [writers EXCEPT ![i] = WriterIdle(writers[i].made + 1)]
        /\ UNCHANGED <<channels, nextId, last, storage, schema_posts>>

RaceNext ==
    \/ RaceCall
    \/ RaceGetChannelId
    \/ RaceCreateChannel
    \/ RaceGetPins
    \/ RaceSendMessage
    \/ RaceSetPin
    \/ RaceReturn

RaceSpec == RaceInit /\ [][RaceNext]_vars

(***************************************************************************)
(* Properties.                                                             *)
(***************************************************************************)
\* the guild after the step
WNext == World(channels', nextId')

\* the channel a table name resolves to in guild w, if any
Resolved(w, table) == get_channel_id(w, to_lowercase(table))

\* two table names that differ at most in case
SameTable(a, b) == to_lowercase(a) = to_lowercase(b)

\* a schema that declares a primary key on some column
DeclaresPrimaryKey(schema) ==
    \E i \in DOMAIN schema.column_defs :
        \E j \in DOMAIN schema.column_defs[i].options :
            schema.column_defs[i].options[j] = Unique(TRUE)

\* the messages of a channel that are Regular and not pinned, oldest first
RegularUnpinned(channel) ==
    SelectSeq(channel.msgs, LAMBDA m : m.kind = "Regular" /\ m.pinned = FALSE)

\* every identifier in guild w: of a channel or of a message
IdsIn(w) ==
    {w.channels[i].id : i \in DOMAIN w.channels}
        \cup UNION {{w.channels[i].msgs[j].id : j \in DOMAIN w.channels[i].msgs} :
                       i \in DOMAIN w.channels}

\* C1: write-once schema.  Once insert_schema of a table has succeeded, every
\* further insert_schema of that table fails, changes nothing in the guild,
\* and fetch_schema of the table still returns the first schema.
C1_WriteOnceSchema ==
    (last.op = "insert_schema" /\ last.res.ok) =>
        \A second \in Schemas :
            SameTable(second.table_name, last.table) =>
                LET again == insert_schema(W, second, 0)
                IN  /\ ~again.res.ok
                    /\ DeclaresPrimaryKey(second)
                         \/ again.res = Storage("channel is already pinned")
                    /\ again.w = W
                    /\ fetch_schema(again.w, last.table, 0).res = Ok(Some(last.arg))

\* C2: the pinned schema is immutable under the row methods.  If fetch_schema
\* of a table returns a schema, it returns the same schema after any
\* append_data, insert_data or delete_data.
C2_SchemaImmutableUnderRowMethods ==
    [][last'.op \in {"append_data", "insert_data", "delete_data"} =>
          \A name \in LookupNames :
              LET before == fetch_schema(W, name, 0).res
              IN  (before.ok /\ before.val.some) =>
                      fetch_schema(WNext, name, 0).res = before]_vars

NotFoundChannel(op) ==
    CASE op = "append_data" -> Storage("append_data) not found channel")
      [] op = "insert_data" -> Storage("insert_data) not found channel")
      [] op = "delete_data" -> Storage("delete_data) not found channel")
      [] op = "delete_schema" -> Storage("delete_schema) not found channel")

\* C4: with no container for the lowercased table name, append_data,
\* insert_data, delete_data and delete_schema fail with a not-found storage
\* error after the channel lookup alone, and the guild is unchanged.
C4_MissingTableMutations ==
    [][(/\ last'.op \in {"append_data", "insert_data", "delete_data", "delete_schema"}
        /\ last'.fail = 0
        /\ ~Resolved(W, last'.table).some) =>
           /\ last'.res = NotFoundChannel(last'.op)
           /\ last'.calls = <<"get_channel_id">>
           /\ WNext = W]_vars

C4_Witness ==
    /\ last.op = "append_data"
    /\ last.arg # <<>>
    /\ last.res = NotFoundChannel("append_data")
    /\ channels # <<>>

\* C5: insert_schema of a schema with a primary-key column fails with a
\* storage error before any remote call, and the guild is unchanged.
C5_PrimaryKeyRejected ==
    [][(last'.op = "insert_schema" /\ DeclaresPrimaryKey(last'.arg)) =>
           /\ last'.res = Storage("primary key is not supported")
           /\ last'.calls = <<>>
           /\ WNext = W]_vars

C5_Witness ==
    /\ last.op = "insert_schema"
    /\ DeclaresPrimaryKey(last.arg)
    /\ ~DeclaresPrimaryKey([last.arg EXCEPT !.column_defs = <<last.arg.column_defs[1]>>])
    /\ last.res = Storage("primary key is not supported")

\* C6: after insert_schema of a table succeeds, fetch_schema under every
\* spelling of the name that differs only in case returns the inserted schema.
C6_CaseInsensitiveLookup ==
    (last.op = "insert_schema" /\ last.res.ok) =>
        \A name \in LookupNames :
            SameTable(name, last.table) =>
                fetch_schema(W, name, 0).res = Ok(Some(last.arg))

\* C7: the guild holds at most one channel for each lowercased table name.
C7_OneContainerPerTable ==
    \A i, j \in DOMAIN channels :
        SameTable(channels[i].name, channels[j].name) => i = j

\* the message id a scan entry carries
EntryId(entry) == ParseU64(entry.val[1].s).val

\* C8: scan_data yields its rows oldest first: the message ids of the
\* entries are strictly increasing.
C8_ScanOldestFirst ==
    (last.op = "scan_data" /\ last.res.ok) =>
        \A i, j \in DOMAIN last.res.val :
            (i < j /\ last.res.val[i].ok /\ last.res.val[j].ok) =>
                EntryId(last.res.val[i]) < EntryId(last.res.val[j])

C8_Witness ==
    /\ last.op = "scan_data"
    /\ last.res.ok
    /\ Len(last.res.val) = 3
    /\ \A i \in DOMAIN last.res.val : last.res.val[i].ok
    /\ last.res.val[1].val[2] # last.res.val[3].val[2]

\* C9: scan_data yields one entry for each message of the channel that is
\* Regular and not pinned, in order, and none for any other message.
C9_ScanStructuralFilter ==
    (last.op = "scan_data" /\ last.res.ok) =>
        LET rowMsgs == RegularUnpinned(ChannelOf(W, Resolved(W, last.table).v))
        IN  /\ Len(last.res.val) = Len(rowMsgs)
            /\ \A i \in DOMAIN rowMsgs :
                   last.res.val[i].ok =>
                       last.res.val[i].val[1] = KeyStr(DecimalString(rowMsgs[i].id))

C9_Witness ==
    /\ last.op = "scan_data"
    /\ last.res.ok
    /\ last.res.val # <<>>
    /\ LET msgs == ChannelOf(W, Resolved(W, last.table).v).msgs
       IN  /\ \E i \in DOMAIN msgs : msgs[i].kind = "PinsAdd"
           /\ \E i \in DOMAIN msgs :
                  msgs[i].pinned /\ from_discord_json("Row", msgs[i].content).ok

MsgsOf(w, table) == ChannelOf(w, Resolved(w, table).v).msgs

\* C11: upsert asymmetry.  When insert_data of one pair (k, r) succeeds and no
\* remote call failed: if the channel held a message with identifier k, the
\* channel afterwards is the same but for the content of that message, which
\* is the encoding of r (same identifiers, same order, same number of
\* messages); if it held none, one message is added at the end, its
\* identifier is not k, its content is the encoding of r, and fetch_data of k
\* still returns None.
C11_UpsertAsymmetry ==
    [][(/\ last'.op = "insert_data"
        /\ last'.res.ok
        /\ last'.fail = 0
        /\ Len(last'.arg) = 1) =>
           LET k == last'.arg[1][1]
               r == last'.arg[1][2]
               id == KeyToMessageId(k).val
               old == MsgsOf(W, last'.table)
               new == MsgsOf(WNext, last'.table)
               at == {i \in DOMAIN old : old[i].id = id}
           IN  IF at # {}
               THEN /\ Len(new) = Len(old)
                    /\ \A i \in DOMAIN old :
                           new[i] = IF i \in at
                                    THEN [old[i] EXCEPT !.content = to_discord_json("Row", r)]
                                    ELSE old[i]
               ELSE /\ Len(new) = Len(old) + 1
                    /\ SubSeq(new, 1, Len(old)) = old
                    /\ new[Len(new)].id # id
                    /\ new[Len(new)].content = to_discord_json("Row", r)
                    /\ fetch_data(WNext, last'.table, k, 0).res = Ok(None)]_vars

\* insert_data has replaced the row of a message that is not the newest of its
\* channel, by a row other than the one it held
C11_Witness ==
    /\ last.op = "insert_data"
    /\ last.res.ok
    /\ last.fail = 0
    /\ Len(last.arg) = 1
    /\ LET msgs == MsgsOf(W, last.table)
       IN  \E i, j \in DOMAIN msgs :
               /\ i < j
               /\ msgs[i].id = KeyToMessageId(last.arg[1][1]).val
               /\ msgs[i].content = to_discord_json("Row", last.arg[1][2])
               /\ IsRowMessage(msgs[i])
               /\ IsRowMessage(msgs[j])
               /\ msgs[j].content # msgs[i].content

\* key k is gone from a table in guild w: fetch_data of it returns None, not
\* an error, and no entry of scan_data carries it
GoneFrom(w, table, k) ==
    /\ fetch_data(w, table, k, 0).res = Ok(None)
    /\ LET scan == scan_data(w, table, 0).res
       IN  /\ scan.ok
           /\ \A i \in DOMAIN scan.val :
                  scan.val[i].ok => EntryId(scan.val[i]) # KeyToMessageId(k).val

\* C12: delete-then-fetch.  After a successful delete_data every key it was
\* given is gone from the table: fetch_data returns None and scan_data does
\* not list it; and a key the platform has issued that is gone from the table
\* is still gone after any append_data or insert_data, that of the key itself
\* included, because no new message gets an identifier issued before.
C12_DeleteThenFetch ==
    [][/\ (last'.op = "delete_data" /\ last'.res.ok) =>
              \A i \in DOMAIN last'.arg : GoneFrom(WNext, last'.table, last'.arg[i])
       /\ last'.op \in {"append_data", "insert_data"} =>
              \A id \in KnownIds :
                  GoneFrom(W, last'.table, KeyStr(DecimalString(id))) =>
                      GoneFrom(WNext, last'.table, KeyStr(DecimalString(id)))]_vars

\* delete_data has deleted one of several rows of the table
C12_Witness ==
    /\ last.op = "delete_data"
    /\ last.res.ok
    /\ last.fail = 0
    /\ Len(last.arg) = 1
    /\ RegularUnpinned(ChannelOf(W, Resolved(W, last.table).v)) # <<>>
    /\ GoneFrom(W, last.table, last.arg[1])

\* C13: every failure is reported upward.  When a remote call of a method
\* fails for a reason of transport or platform (not because the message is
\* not there), the method returns a storage error and issues no further
\* call: fetch_data does not answer None, insert_data does not post.
C13_EveryFailureReported ==
    last.fail > 0 => (~last.res.ok /\ Len(last.calls) = last.fail)

\* the row method of that name
RowMethod(op, w, table, arg, f) ==
    CASE op = "append_data" -> append_data(w, table, arg, f)
      [] op = "insert_data" -> insert_data(w, table, arg, f)
      [] op = "delete_data" -> delete_data(w, table, arg, f)

\* the most remote calls a row method issues for one element of its input
CallsPerElement(op) == IF op = "insert_data" THEN 2 ELSE 1

\* C14: no rollback and stop at first failure.  When append_data, insert_data
\* or delete_data fails inside its loop, there is an element i such that the
\* guild is left as the same call on elements 1..i-1 alone leaves it (which
\* succeeds), the calls issued are those of elements 1..i-1 followed by at
\* most the calls of element i, and the result is one storage error.
C14_NoRollbackStopAtFirstFailure ==
    [][(/\ last'.op \in {"append_data", "insert_data", "delete_data"}
        /\ ~last'.res.ok
        /\ Resolved(W, last'.table).some
        /\ last'.fail # 1) =>
           /\ last'.res = Storage(last'.res.err)
           /\ \E i \in DOMAIN last'.arg :
                  LET pre == RowMethod(last'.op, W, last'.table,
                                       SubSeq(last'.arg, 1, i - 1), last'.fail)
                  IN  /\ pre.res.ok
                      /\ WNext = pre.w
                      /\ Len(last'.calls) >= Len(pre.calls)
                      /\ SubSeq(last'.calls, 1, Len(pre.calls)) = pre.calls
                      /\ Len(last'.calls) <= Len(pre.calls) + CallsPerElement(last'.op)]_vars

\* delete_data of two keys has deleted the first and failed at the second
C14_Witness ==
    /\ last.op = "delete_data"
    /\ ~last.res.ok
    /\ Len(last.arg) = 2
    /\ last.calls = <<"get_channel_id", "delete_message", "delete_message">>
    /\ last.arg[1] # last.arg[2]
    /\ GoneFrom(W, last.table, last.arg[1])
    /\ MsgsOf(W, last.table) # <<>>

C16_FenceTolerance ==
    last.op \in {"from_discord_json", "from_str"} =>
        last.res = from_str(last.ty, last.arg)

\* the last call was an insert_schema whose post succeeded and whose pin failed
PinFailed ==
    /\ last.op = "insert_schema"
    /\ last.fail > 0
    /\ last.fail = Len(last.calls)
    /\ last.calls[last.fail] = "set_pin"

\* C17: pin-failure recovery of insert_schema.  When the post succeeded and the
\* pin failed, insert_schema returns an error, the posted message is in the
\* container, unpinned, fetch_schema of the table returns None, and an
\* insert_schema of the same schema in which no call fails then finds the
\* container with zero pins, succeeds, and fetch_schema returns the schema.
C17_PinFailureRecovery ==
    PinFailed =>
        LET retry == insert_schema(W, last.arg, 0)
        IN  /\ ~last.res.ok
            /\ \E c \in DOMAIN channels :
                   /\ SameTable(channels[c].name, last.table)
                   /\ \E m \in DOMAIN channels[c].msgs :
                          /\ channels[c].msgs[m].id = nextId - 1
                          /\ ~channels[c].msgs[m].pinned
                          /\ channels[c].msgs[m].content = to_discord_json("Schema", last.arg)
            /\ fetch_schema(W, last.table, 0).res = Ok(None)
            /\ retry.calls = <<"get_channel_id", "get_pins", "send_message", "set_pin">>
            /\ retry.res.ok
            /\ fetch_schema(retry.w, last.table, 0).res = Ok(Some(last.arg))

\* the pinned messages of a channel
PinsOf(channel) == SelectSeq(channel.msgs, LAMBDA m : m.pinned)

\* a writer alone, from the empty guild, does what insert_schema does
RaceAgreesWithInsertSchema ==
    \A i, j \in Writers :
        (/\ i # j
         /\ writers[j] = WriterIdle(0)
         /\ writers[i].made = 0
         /\ writers[i].pc = "done") =>
            \E f \in 0..Len(writers[i].calls) :
                LET out == insert_schema(World(<<>>, 1), writers[i].schema, f)
                IN  /\ out.w = W
                    /\ out.res = writers[i].res
                    /\ out.calls = writers[i].calls

\* C18: concurrent insert_schema race.  Nothing in insert_schema refuses the
\* second of two interleaved writers of one table: when both calls have ended
\* with Ok, either each writer created a container of its own and pinned its
\* schema there (two containers for one table), or both pinned in the same
\* container, which then holds two pinned schema messages.
C18_ConcurrentInsertSchemaRace ==
    \A i, j \in Writers :
        (/\ i # j
         /\ writers[i].pc = "done" /\ writers[i].res.ok
         /\ writers[j].pc = "done" /\ writers[j].res.ok
         /\ SameTable(writers[i].schema.table_name, writers[j].schema.table_name)) =>
            LET ci == ChannelOf(W, writers[i].channel_id)
                cj == ChannelOf(W, writers[j].channel_id)
            IN  \/ /\ ci.id # cj.id
                   /\ SameTable(ci.name, cj.name)
                   /\ PinsOf(ci) # <<>>
                   /\ PinsOf(cj) # <<>>
                \/ /\ ci.id = cj.id
                   /\ Len(PinsOf(ci)) >= 2

\* both races have happened: one table has two containers, each with a pinned
\* schema, and a container of another table holds two pinned schemas
C18_Witness ==
    /\ \E c, d \in DOMAIN channels :
           /\ c # d
           /\ channels[c].name = channels[d].name
           /\ Len(PinsOf(channels[c])) = 1
           /\ Len(PinsOf(channels[d])) = 1
    /\ \E e \in DOMAIN channels :
           /\ Len(PinsOf(channels[e])) = 2
           /\ \A c \in DOMAIN channels : channels[c].name = channels[e].name => c = e
    /\ \A i \in Writers : writers[i].pc = "done" /\ writers[i].res.ok

\* C19: table drop removes schema and rows together.  A successful
\* delete_schema removes the container the table resolves to, with every
\* message in it, and leaves the other containers as they were; fetch_schema
\* of the table then returns None; and when insert_schema creates the table
\* again, scan_data of it yields no row from before the drop.
C19_DropRemovesSchemaAndRows ==
    [][(last'.op = "delete_schema" /\ last'.res.ok) =>
           LET channel_id == Resolved(W, last'.table).v
               dropped == ChannelOf(W, channel_id)
           IN  /\ channels' = SelectSeq(channels, LAMBDA c : c.id # channel_id)
               /\ Len(channels') = Len(channels) - 1
               /\ \A m \in DOMAIN dropped.msgs : dropped.msgs[m].id \notin IdsIn(WNext)
               /\ fetch_schema(WNext, last'.table, 0).res = Ok(None)
               /\ \A schema \in Schemas :
                      LET again == insert_schema(WNext, schema, 0)
                          scan == scan_data(again.w, last'.table, 0).res
                      IN  (SameTable(schema.table_name, last'.table) /\ again.res.ok) =>
                              /\ scan.ok => scan.val = <<>>
                              /\ \A m \in DOMAIN dropped.msgs :
                                     dropped.msgs[m].id \notin IdsIn(again.w)]_vars

\* delete_schema has succeeded and one container, with no message, is left,
\* while more identifiers were issued than two containers take
C19_Witness ==
    /\ last.op = "delete_schema"
    /\ last.res.ok
    /\ Len(channels) = 1
    /\ channels[1].msgs = <<>>
    /\ nextId > 3

DecodesAsRow(message) == from_discord_json("Row", content_safe(message.content)).ok

\* C21: uniform decode-failure policy.  scan_data yields one entry for each
\* Regular, unpinned message of the channel; for a message whose content
\* does not decode as a row the entry is a storage error, never a row and
\* never left out, and fetch_data of the key of that message returns a storage
\* error too.
C21_UniformDecodeFailure ==
    (last.op = "scan_data" /\ last.res.ok) =>
        LET rowMsgs == RegularUnpinned(ChannelOf(W, Resolved(W, last.table).v))
        IN  /\ Len(last.res.val) = Len(rowMsgs)
            /\ \A i \in DOMAIN rowMsgs :
                   ~DecodesAsRow(rowMsgs[i]) =>
                       /\ last.res.val[i] = Storage(last.res.val[i].err)
                       /\ LET fetched == fetch_data(W, last.table,
                                                    KeyStr(DecimalString(rowMsgs[i].id)), 0).res
                          IN  fetched = Storage(fetched.err)

\* scan_data has yielded an error for a message that is no row, before the
\* row of a later message
C21_Witness ==
    /\ last.op = "scan_data"
    /\ last.res.ok
    /\ Len(last.res.val) = 2
    /\ ~last.res.val[1].ok
    /\ last.res.val[2].ok

\* the key of element i of the argument of a row method
KeyAt(op, arg, i) == IF op = "insert_data" THEN arg[i][1] ELSE arg[i]

\* C22: invalid key.  A key that is no string, or a string that is no decimal
\* unsigned number, makes fetch_data return a storage error with no remote
\* call at all; in insert_data and delete_data the first such key ends the
\* call with a storage error: the guild and the calls issued are those of the
\* elements before it, and nothing is fetched, edited, posted or deleted for
\* that key or after it.
C22_InvalidKey ==
    [][/\ (last'.op = "fetch_data" /\ ~KeyToMessageId(last'.arg).ok) =>
              /\ last'.res = Storage("invalid key")
              /\ last'.calls = <<>>
              /\ WNext = W
       /\ last'.op \in {"insert_data", "delete_data"} =>
              \A i \in DOMAIN last'.arg :
                  (/\ ~KeyToMessageId(KeyAt(last'.op, last'.arg, i)).ok
                   /\ \A j \in 1..(i - 1) :
                          KeyToMessageId(KeyAt(last'.op, last'.arg, j)).ok) =>
                      LET pre == RowMethod(last'.op, W, last'.table,
                                           SubSeq(last'.arg, 1, i - 1), last'.fail)
                      IN  /\ ~last'.res.ok
                          /\ pre.res.ok => last'.res = Storage("invalid key")
                          /\ last'.calls = pre.calls
                          /\ WNext = pre.w]_vars

\* delete_data has deleted the message of its first key and stopped at the
\* second, which is no message id
C22_Witness ==
    /\ last.op = "delete_data"
    /\ last.res = Storage("invalid key")
    /\ Len(last.arg) = 2
    /\ ~KeyToMessageId(last.arg[2]).ok
    /\ last.calls = <<"get_channel_id", "delete_message">>
    /\ MsgsOf(W, last.table) # <<>>

\* C23: strict delete.  When delete_data reaches a key whose message is not in
\* the channel (never there, deleted before, or deleted by an earlier key of
\* the same call), it returns a storage error; the keys before it stay
\* deleted and none of the keys after it is deleted.
C23_StrictDelete ==
    [][(last'.op = "delete_data" /\ Resolved(W, last'.table).some) =>
           \A i \in DOMAIN last'.arg :
               LET pre == delete_data(W, last'.table, SubSeq(last'.arg, 1, i - 1), last'.fail)
                   id == KeyToMessageId(last'.arg[i])
               IN  (/\ pre.res.ok
                    /\ id.ok
                    /\ ~get_message(pre.w, Resolved(W, last'.table).v, id.val).ok) =>
                       /\ last'.res = Storage("failed delete_message")
                       /\ WNext = pre.w
                       /\ Len(last'.calls) = Len(pre.calls) + 1]_vars

\* delete_data was given one key twice: the message is deleted and the call
\* has failed at the second
C23_Witness ==
    /\ last.op = "delete_data"
    /\ last.fail = 0
    /\ last.res = Storage("failed delete_message")
    /\ Len(last.arg) = 2
    /\ last.arg[1] = last.arg[2]
    /\ last.calls = <<"get_channel_id", "delete_message", "delete_message">>
    /\ GoneFrom(W, last.table, last.arg[1])

\* the first pin of a channel that has one: the most recent pinned message
FirstPin(channel) == PinsOf(channel)[Len(PinsOf(channel))]

FirstPinDecoded(channel) ==
    from_discord_json("Schema", content_safe(FirstPin(channel).content))

\* the positions of the channels of the guild that have a pinned message
Pinned == {i \in DOMAIN channels : PinsOf(channels[i]) # <<>>}

C25_AtMostOnePin ==
    \A i \in DOMAIN channels : Len(PinsOf(channels[i])) <= 1

\* insert_schema has succeeded in a channel that holds the unpinned schema
\* message of an earlier call whose set_pin failed
C25_Witness ==
    /\ last.op = "insert_schema"
    /\ last.res.ok
    /\ \E i \in DOMAIN channels :
           /\ Len(PinsOf(channels[i])) = 1
           /\ \E j \in DOMAIN channels[i].msgs :
                  /\ ~channels[i].msgs[j].pinned
                  /\ channels[i].msgs[j].kind = "Regular"
                  /\ from_discord_json("Schema",
                                       content_safe(channels[i].msgs[j].content)).ok

\* the messages of the table that append_data or insert_data posted and that
\* are still there, oldest first
WrittenRows(w, table) ==
    SelectSeq(MsgsOf(w, table),
              LAMBDA m : m.kind = "Regular" /\ m.id \notin schema_posts.ids)

\* the entry of a scan that stands for a message: its key and row, or the
\* error of its decoding
EntryOf(message) ==
    LET row == from_discord_json("Row", content_safe(message.content))
    IN  IF row.ok THEN Ok(<<KeyStr(DecimalString(message.id)), row.val>>)
        ELSE Storage(row.err)

\* C26: rows are exactly what the row operations wrote.  The entries that
\* scan_data of a table yields stand one-to-one for the messages that
\* append_data or insert_data posted to the table and that were not deleted
\* since; no message that insert_schema posted is among them.
C26_RowsAreWhatRowOpsWrote ==
    (last.op = "scan_data" /\ last.res.ok) =>
        /\ Len(last.res.val) = Len(WrittenRows(W, last.table))
        /\ \A i \in DOMAIN last.res.val :
               last.res.val[i] = EntryOf(WrittenRows(W, last.table)[i])

\* C27: fetch_all_schemas agrees with fetch_schema.  For each schema that
\* fetch_all_schemas returns, fetch_schema of its table name returns that
\* schema; and for each table name for which fetch_schema returns a schema,
\* that schema is in the result of fetch_all_schemas.
C27_FetchAllAgreesWithFetch ==
    (last.op = "fetch_all_schemas" /\ last.fail = 0 /\ last.res.ok) =>
        /\ \A i \in DOMAIN last.res.val :
               fetch_schema(W, last.res.val[i].table_name, 0).res =
                   Ok(Some(last.res.val[i]))
        /\ \A name \in LookupNames :
               LET one == fetch_schema(W, name, 0).res
               IN  (one.ok /\ one.val.some) =>
                       \E i \in DOMAIN last.res.val : last.res.val[i] = one.val.v

\* C28: scan keys are fetchable.  With no remote failure, for each pair of
\* key and row that scan_data of a table yields, the key is the decimal
\* string of the identifier of a message of the table, and fetch_data of the
\* table with that key returns that same row.
C28_ScanKeysFetchable ==
    (last.op = "scan_data" /\ last.fail = 0 /\ last.res.ok) =>
        \A i \in DOMAIN last.res.val :
            last.res.val[i].ok =>
                LET k == last.res.val[i].val[1]
                    row == last.res.val[i].val[2]
                    msgs == MsgsOf(W, last.table)
                IN  /\ \E j \in DOMAIN msgs : k = KeyStr(DecimalString(msgs[j].id))
                    /\ fetch_data(W, last.table, k, 0).res = Ok(Some(row))

\* scan_data has yielded two pairs with different rows
C28_Witness ==
    /\ last.op = "scan_data"
    /\ last.fail = 0
    /\ last.res.ok
    /\ Len(last.res.val) = 2
    /\ last.res.val[1].ok /\ last.res.val[2].ok
    /\ last.res.val[1].val[2] # last.res.val[2].val[2]
    /\ last.res.val[1].val[1] # last.res.val[2].val[1]

\* C29: fetch_data applies the structural exclusion of scan_data.  For a key
\* that names a pinned message or a message that is not Regular, fetch_data
\* returns None: it yields a row or a decode error only for the key of a
\* message that is Regular and not pinned.
C29_FetchStructuralExclusion ==
    (/\ last.op = "fetch_data"
     /\ last.fail = 0
     /\ KeyToMessageId(last.arg).ok
     /\ Resolved(W, last.table).some) =>
        LET message == get_message(W, Resolved(W, last.table).v,
                                   KeyToMessageId(last.arg).val)
        IN  IF message.ok /\ message.val.kind = "Regular" /\ ~message.val.pinned
            THEN TRUE
            ELSE last.res = Ok(None)

====
